---- MODULE Spec2Model ----
(***************************************************************************)
(* A model of the directory-to-index synchronisation core:                 *)
(*   knowledge_base/folder_watcher.py  (FolderWatcher, scan_folder, ...)   *)
(*   knowledge_base/docs_indexer.py    (DocsIndexer, split_text)           *)
(* The watcher keeps a snapshot (path -> fingerprint) in memory and in a   *)
(* snapshot file, reconciles it with the directory at start() and then     *)
(* translates live filesystem events to on_add / on_remove / on_rename,    *)
(* which the indexer applies to the vector store.                          *)
(***************************************************************************)
EXTENDS Integers, Sequences, FiniteSets, TLC

VARIABLES
    disk,       \* the watched tree: relative path -> [content, mtime], files only
    snapFile,   \* the snapshot file: [st: "missing" | "torn" | "ok", data: snapshot]
    mem,        \* FolderWatcher.last_snapshot
    pc,         \* where the watcher process is
    old,        \* _initial_diff's local `old` (the loaded snapshot)
    new,        \* _initial_diff's local `new` (the scan)
    added,      \* _initial_diff: paths of `added` whose on_add has not been fired
    removed,    \* _initial_diff: the set `removed`
    remLeft,    \* _initial_diff: paths of `removed` whose on_remove has not been fired
    queue,      \* events the observer has queued for the delivery thread
    todo,       \* the rest of the running handler, as a sequence of its statements
    store,      \* the vector store collection: a set of chunk records
    calls,      \* callbacks fired by the running start() or handler, in order
    ops,        \* number of filesystem / driver operations so far (the clock)
    kills,      \* number of times the process died (killed, or start() raised)
    hist,       \* the indexer driver's record of its most recent call
    ghost       \* history of the run (which guarantees are still owed)

vars == <<disk, snapFile, mem, pc, old, new, added, removed, remLeft, queue, todo,
          store, calls, ops, kills, hist, ghost>>

watcherVars == <<snapFile, mem, pc, old, new, added, removed, remLeft, queue, todo,
                 calls, kills, ghost>>

-----------------------------------------------------------------------------
(* Bounds of the model *)

\* filesystem operations in one behaviour of the watcher
MaxOps == 2
\* kills of the process in one behaviour
MaxKills == 1
\* calls of the driver of the indexer's laws
MaxIdxOps == 3
\* random.randint draws values in 0..MaxRand
MaxRand == 1
\* split_text is called on texts of up to MaxLen characters with chunk sizes
\* up to MaxSize (and on the texts of the files, with its default sizes)
MaxLen == 8
MaxSize == 5

-----------------------------------------------------------------------------
(* Paths and ignore patterns *)

\* DocsIndexer.__init__: persist_directory = document_root / "_index"
Root == <<"docs">>
PersistDir == Root \o <<"_index">>
SnapshotPath == PersistDir \o <<"document_snapshot.json">>

\* relative paths of the files the model creates under the root
FileA == <<"a.md">>
FileB == <<"b.md">>
FileI == <<"_index", "chroma.bin">>
Paths == {FileA, FileB, FileI}

AbsPath(rel) == Root \o rel

\* Path(path).relative_to(self.target_folder).as_posix()
get_relative_path(abs) == SubSeq(abs, Len(Root) + 1, Len(abs))

\* fnmatch.fnmatch on a path given as its segments: a pattern ending in "**"
\* matches every path that extends the pattern's directory ('*' also matches
\* '/'), any other pattern matches only itself.
fnmatch(path, pattern) ==
    IF pattern # <<>> /\ pattern[Len(pattern)] = "**"
    THEN /\ Len(path) >= Len(pattern)
         /\ SubSeq(path, 1, Len(pattern) - 1) = SubSeq(pattern, 1, Len(pattern) - 1)
    ELSE path = pattern

fnmatch_any(path, patterns) == \E pattern \in patterns : fnmatch(path, pattern)

\* ignore_patterns=[str(persist_directory / "**")], plus the snapshot path
ignore_patterns == {PersistDir \o <<"**">>, SnapshotPath}

Ignored(rel) == fnmatch_any(AbsPath(rel), ignore_patterns)

-----------------------------------------------------------------------------
(* File contents, fingerprints, chunking *)

LongLen == 600
\* the texts files can hold, by content id; 0 is the empty file
Text(c) ==
    CASE c = 0 -> <<>>
      [] c = 1 -> <<"h", "i">>
      [] c = 2 -> <<"y", "o", "u">>
      [] OTHER -> [i \in 1..LongLen |-> IF i <= 450 THEN "x" ELSE "y"]

AllContents == {0, 1, 2, 3}
\* what the model's other programs put in a file they create, and in a file
\* they rewrite; a file under _index is created with content 1 and not rewritten
CreateContents(p) == IF p = FileI THEN {1} ELSE {0, 1}
WriteContents(p) == IF p = FileI THEN {} ELSE {0, 2}

\* file_hash: f"{st.st_mtime_ns}-{st.st_size}"
file_hash(f) == <<f.mtime, Len(Text(f.content))>>

ChunkSize == 500
Overlap == 100

Min(a, b) == IF a < b THEN a ELSE b

\* text[start:end] of Python, start and end counted from 0
Slice(text, start, end) == SubSeq(text, start + 1, Min(end, Len(text)))

RECURSIVE split_from(_, _, _, _)
split_from(text, start, chunk_size, overlap) ==
    IF start < Len(text)
    THEN <<Slice(text, start, start + chunk_size)>>
         \o split_from(text, start + chunk_size - overlap, chunk_size, overlap)
    ELSE <<>>

\* a buggy variant: the window advances by its whole size
split_no_overlap(text, chunk_size, overlap) == split_from(text, 0, chunk_size, 0)

split_text(text, chunk_size, overlap) == split_from(text, 0, chunk_size, overlap)

\* the embedding provider: one vector per chunk, a function of the chunk
Embed(chunk) == <<"vec", Len(chunk), IF chunk = <<>> THEN "" ELSE chunk[1]>>

-----------------------------------------------------------------------------
(* The indexer's operations on the collection (a set of chunk records) *)

Nonces == 0..MaxRand

\* a buggy variant: the delete has no where clause
remove_everything(S, source_id) == {}

\* collection.delete(where={"source_id": source_id})
remove_from_vector_db(S, source_id) == {r \in S : r.source_id # source_id}

\* collection.add: a record whose id is already in the collection is ignored
collection_add(S, recs) == S \cup {r \in recs : \A x \in S : x.id # r.id}

\* the records _add_to_vector_db builds for the chunks of `content`;
\* rnd[i] is the value random.randint returns for chunk i
NewRecords(id, content, rnd) ==
    LET chunks == split_text(content, ChunkSize, Overlap)
    IN  { [ id        |-> <<id, i - 1, rnd[i]>>,
            document  |-> chunks[i],
            embedding |-> Embed(chunks[i]),
            source_id |-> id,
            chunk_id  |-> i - 1 ] : i \in 1..Len(chunks) }

\* a buggy variant: an empty file is left alone, its old records included
add_skips_empty(S, id, content, rnd) ==
    IF content = <<>> THEN S
    ELSE collection_add(remove_from_vector_db(S, id), NewRecords(id, content, rnd))

\* a buggy variant: the upsert without its initial delete
add_without_delete(S, id, content, rnd) ==
    IF content = <<>> THEN S ELSE collection_add(S, NewRecords(id, content, rnd))

\* _add_to_vector_db for a file that exists and holds `content`
add_to_vector_db(S, id, content, rnd) ==
    LET S1 == remove_from_vector_db(S, id)
    IN  IF content = <<>> THEN S1 ELSE collection_add(S1, NewRecords(id, content, rnd))

\* a buggy variant: the rename loses the chunk positions
rename_losing_chunk_id(S, old_id, new_id) ==
    { IF r.source_id = old_id
      THEN [r EXCEPT !.source_id = new_id, !.chunk_id = 0]
      ELSE r : r \in S }

\* _rename_in_vector_db: collection.update(ids, metadatas) of the records found
rename_in_vector_db(S, old_id, new_id) ==
    LET found == {r \in S : r.source_id = old_id}
    IN  IF found = {} THEN S
        ELSE (S \ found) \cup {[r EXCEPT !.source_id = new_id] : r \in found}

\* the number of random draws _add_to_vector_db makes for `content`
NChunks(content) == Len(split_text(content, ChunkSize, Overlap))
Draws(content) == [1..NChunks(content) -> Nonces]

-----------------------------------------------------------------------------
(* The watcher: snapshot file, reconciliation at start(), live handlers *)

Empty == [x \in {} |-> 0]
Restrict(f, D) == [x \in D |-> f[x]]
Put(f, k, v) == [x \in DOMAIN f \cup {k} |-> IF x = k THEN v ELSE f[x]]

\* scan_folder: relative path -> hash of every file that is not ignored
scan_folder(d) ==
    [p \in {x \in DOMAIN d : ~fnmatch_any(AbsPath(x), ignore_patterns)} |-> file_hash(d[p])]

\* load_snapshot: only FileNotFoundError is caught; a file that does not
\* parse makes json.loads raise
load_raises(f) == f.st = "torn"
load_snapshot(f) == IF f.st = "missing" THEN Empty ELSE f.data

\* save_snapshot is write_text: the file is truncated when it is opened and
\* holds the new content once the write has been flushed
Torn == [st |-> "torn", data |-> Empty]
Saved(snap) == [st |-> "ok", data |-> snap]

\* a buggy variant: every scanned path counts as added
diff_added_all(o, n) == DOMAIN n

\* _initial_diff: added = new_paths - old_paths
diff_added(o, n) == DOMAIN n \ DOMAIN o

\* a buggy variant: every path of the loaded snapshot counts as removed
diff_removed_all(o, n) == DOMAIN o

\* _initial_diff: removed = old_paths - new_paths
diff_removed(o, n) == DOMAIN o \ DOMAIN n

Call(cb, a, b) == [cb |-> cb, a |-> a, b |-> b]
NoPath == <<>>

Running == pc \notin {"stopped", "load_failed"}
\* the watcher is not running: never started, or stop() has returned
Halted == pc \in {"stopped", "joined"}
\* the delivery thread is alive: dispatching, or finishing its last handler
\* after observer.stop()
Dispatching == pc \in {"live", "stopping"}
Reconciling == pc \in {"diffed", "save1", "fire", "save2", "observe"}
Idle == pc = "live" /\ todo = <<>>

\* what the indexer holds for p against what p's content chunks to
ChunksOf(p) ==
    IF p \in DOMAIN disk THEN split_text(Text(disk[p].content), ChunkSize, Overlap)
    ELSE <<>>
ConsistentAt(p) ==
    LET mine == {r \in store : r.source_id = p}
        chunks == ChunksOf(p)
    IN  /\ Cardinality(mine) = Len(chunks)
        /\ {<<r.chunk_id, r.document>> : r \in mine}
             = {<<i - 1, chunks[i]>> : i \in 1..Len(chunks)}
Consistent == \A p \in Paths : ~Ignored(p) => ConsistentAt(p)

\* snapshot file, memory, directory and index all agree
InSync ==
    /\ snapFile = Saved(mem)
    /\ mem = scan_folder(disk)
    /\ Consistent

\* no call of the indexer driver yet
NoCall == [op |-> "none", p |-> <<>>, q |-> <<>>, pre |-> {}, base |-> {},
           rnd |-> <<>>, twice |-> FALSE, embeds |-> 0]

\* The watcher starts stopped on a directory that holds a.md: either never
\* run before (no snapshot file, empty collection), or after an earlier run
\* that indexed a.md and was stopped.
FirstFile == [content |-> 1, mtime |-> 0]
MainInit ==
    /\ disk = [p \in {FileA} |-> FirstFile]
    /\ \/ /\ snapFile = [st |-> "missing", data |-> Empty]
          /\ store = {}
       \/ /\ snapFile = Saved([p \in {FileA} |-> file_hash(FirstFile)])
          /\ \E rnd \in Draws(Text(FirstFile.content)) :
                store = add_to_vector_db({}, FileA, Text(FirstFile.content), rnd)
    /\ mem = Empty
    /\ pc = "stopped"
    /\ old = Empty
    /\ new = Empty
    /\ added = {}
    /\ removed = {}
    /\ remLeft = {}
    /\ queue = <<>>
    /\ todo = <<>>
    /\ calls = <<>>
    /\ ops = 0
    /\ kills = 0
    /\ hist = NoCall
    /\ ghost = [quiet |-> TRUE, clean |-> FALSE, owed |-> {}, stop |-> "none",
               check |-> "none"]

(* ---- the filesystem, changed by other programs ---- *)

\* the observer queues an event only while it runs
Emit(e) == queue' = IF pc = "live" THEN Append(queue, e) ELSE queue
Event(type, src, dest) == [type |-> type, src |-> src, dest |-> dest]

\* ghost.quiet: nothing changed in the directory during this start();
\* ghost.clean: start() returned with the index consistent and since then
\* every change was made while the delivery thread was idle, was observed,
\* and touched no ignored path
FsGhost ==
    ghost' = IF Halted THEN ghost
             ELSE IF Dispatching
             THEN [ghost EXCEPT !.clean = @ /\ todo = <<>>]
             ELSE [ghost EXCEPT !.quiet = FALSE, !.clean = FALSE]

\* A change of the directory commutes with every step of the watcher that
\* does not read the directory, so the model lets the directory change only
\* where the watcher is stopped or idle, or is about to read it or to start
\* observing it.
ReadsDisk ==
    \/ pc = "fire" /\ added # {}
    \/ pc = "observe"
    \/ Dispatching /\ todo # <<>> /\ Head(todo).op \in {"put", "on_add"}
FsAllowed ==
    /\ ops < MaxOps
    /\ Halted \/ (pc = "live" /\ todo = <<>>) \/ ReadsDisk

FsCreate(p, c) ==
    /\ FsAllowed
    /\ p \notin DOMAIN disk
    /\ disk' = Put(disk, p, [content |-> c, mtime |-> ops + 1])
    /\ Emit(Event("created", p, NoPath))
    /\ FsGhost
    /\ ops' = ops + 1
    /\ UNCHANGED <<snapFile, mem, pc, old, new, added, removed, remLeft, todo,
                   store, calls, kills, hist>>

FsWrite(p, c) ==
    /\ FsAllowed
    /\ p \in DOMAIN disk
    /\ disk' = Put(disk, p, [content |-> c, mtime |-> ops + 1])
    /\ Emit(Event("modified", p, NoPath))
    /\ FsGhost
    /\ ops' = ops + 1
    /\ UNCHANGED <<snapFile, mem, pc, old, new, added, removed, remLeft, todo,
                   store, calls, kills, hist>>

FsDelete(p) ==
    /\ FsAllowed
    /\ p \in DOMAIN disk
    /\ disk' = Restrict(disk, DOMAIN disk \ {p})
    /\ Emit(Event("deleted", p, NoPath))
    /\ FsGhost
    /\ ops' = ops + 1
    /\ UNCHANGED <<snapFile, mem, pc, old, new, added, removed, remLeft, todo,
                   store, calls, kills, hist>>

\* rename(2): the file keeps content and mtime and replaces a file at dest
FsMove(src, dest) ==
    /\ FsAllowed
    /\ src \in DOMAIN disk
    /\ src # dest
    /\ disk' = Restrict(Put(disk, dest, disk[src]), (DOMAIN disk \cup {dest}) \ {src})
    /\ Emit(Event("moved", src, dest))
    /\ FsGhost
    /\ ops' = ops + 1
    /\ UNCHANGED <<snapFile, mem, pc, old, new, added, removed, remLeft, todo,
                   store, calls, kills, hist>>

(* ---- the process: kill and start() ---- *)

\* the process is killed (or exits): memory and queued events are lost, the
\* snapshot file, the directory and the collection stay
Kill ==
    /\ Running
    /\ kills < MaxKills
    /\ kills' = kills + 1
    /\ pc' = "stopped"
    /\ mem' = Empty /\ old' = Empty /\ new' = Empty
    /\ added' = {} /\ removed' = {} /\ remLeft' = {}
    /\ queue' = <<>> /\ todo' = <<>>
    /\ ghost' = [ghost EXCEPT !.clean = FALSE, !.stop = "none", !.check = "none"]
    /\ UNCHANGED <<disk, snapFile, store, calls, ops, hist>>

\* start(): load_snapshot, then _initial_diff up to the computed diff. It is
\* called once in the life of a process, by DocsIndexer.__init__.
Start ==
    /\ pc = "stopped"
    /\ calls' = <<>>
    /\ IF load_raises(snapFile)
       THEN /\ pc' = "load_failed"
            /\ UNCHANGED <<mem, old, new, added, removed, remLeft, ghost>>
       ELSE LET o == load_snapshot(snapFile)
                n == scan_folder(disk)
            IN  /\ pc' = "diffed"
                /\ mem' = o /\ old' = o /\ new' = n
                /\ added' = diff_added(o, n)
                /\ removed' = diff_removed(o, n)
                /\ remLeft' = diff_removed(o, n)
                /\ ghost' = [ghost EXCEPT !.quiet = TRUE, !.stop = "none",
                                          !.owed = @ \cup diff_removed(o, n)]
    /\ UNCHANGED <<disk, snapFile, queue, todo, store, ops, kills, hist>>

\* _initial_diff: save_snapshot(old without removed), the file is opened
Save1Open ==
    /\ pc = "diffed"
    /\ snapFile' = Torn
    /\ pc' = "save1"
    /\ UNCHANGED <<disk, mem, old, new, added, removed, remLeft, queue, todo,
                   store, calls, ops, kills, hist, ghost>>

\* a buggy variant: the first save writes the loaded snapshot as it is, with
\* the removed paths still in it
Save1WriteKeepsRemoved ==
    /\ pc = "save1"
    /\ snapFile' = Saved(old)
    /\ pc' = "fire"
    /\ UNCHANGED <<disk, mem, old, new, added, removed, remLeft, queue, todo,
                   store, calls, ops, kills, hist, ghost>>

\* ... and written
Save1Write ==
    /\ pc = "save1"
    /\ snapFile' = Saved(Restrict(old, DOMAIN old \ removed))
    /\ pc' = "fire"
    /\ UNCHANGED <<disk, mem, old, new, added, removed, remLeft, queue, todo,
                   store, calls, ops, kills, hist, ghost>>

\* the process ends with an exception raised out of start()
Raise ==
    /\ pc' = "stopped"
    /\ kills' = kills + 1
    /\ mem' = Empty /\ old' = Empty /\ new' = Empty
    /\ added' = {} /\ removed' = {} /\ remLeft' = {}
    /\ queue' = <<>> /\ todo' = <<>>

\* DocsIndexer._on_add(p): the delete, then _read, which raises when the file
\* is gone, then chunks, embeddings and collection.add
on_add_raises(p) == p \notin DOMAIN disk
OnAdd(p) ==
    IF on_add_raises(p)
    THEN store' = remove_from_vector_db(store, p)
    ELSE \E rnd \in Draws(Text(disk[p].content)) :
            store' = add_to_vector_db(store, p, Text(disk[p].content), rnd)

\* _initial_diff: for p in added: self.on_add(p)
FireAdd(p) ==
    /\ pc = "fire"
    /\ p \in added
    /\ calls' = Append(calls, Call("on_add", p, NoPath))
    /\ OnAdd(p)
    /\ IF on_add_raises(p)
       THEN /\ Raise
            /\ UNCHANGED ghost
       ELSE /\ added' = added \ {p}
            /\ ghost' = [ghost EXCEPT !.owed = @ \ {p}]
            /\ UNCHANGED <<pc, mem, old, new, removed, remLeft, queue, todo, kills>>
    /\ UNCHANGED <<disk, snapFile, ops, hist>>

\* _initial_diff: for p in removed: self.on_remove(p), after the adds
FireRemove(p) ==
    /\ pc = "fire"
    /\ added = {}
    /\ p \in remLeft
    /\ calls' = Append(calls, Call("on_remove", p, NoPath))
    /\ store' = remove_from_vector_db(store, p)
    /\ remLeft' = remLeft \ {p}
    /\ ghost' = [ghost EXCEPT !.owed = @ \ {p}]
    /\ UNCHANGED <<disk, snapFile, mem, pc, old, new, added, removed, queue, todo,
                   ops, kills, hist>>

\* _initial_diff: self.last_snapshot = new; save_snapshot(new), the file is opened
Save2Open ==
    /\ pc = "fire"
    /\ added = {} /\ remLeft = {}
    /\ mem' = new
    /\ snapFile' = Torn
    /\ pc' = "save2"
    /\ UNCHANGED <<disk, old, new, added, removed, remLeft, queue, todo,
                   store, calls, ops, kills, hist, ghost>>

\* ... and written: _initial_diff returns
Save2Write ==
    /\ pc = "save2"
    /\ snapFile' = Saved(new)
    /\ pc' = "observe"
    /\ ghost' = [ghost EXCEPT !.clean = ghost.quiet /\ Consistent]
    /\ UNCHANGED <<disk, mem, old, new, added, removed, remLeft, queue, todo,
                   store, calls, ops, kills, hist>>

\* start(): the observer is scheduled and started
StartObserver ==
    /\ pc = "observe"
    /\ pc' = "live"
    /\ old' = Empty /\ new' = Empty /\ removed' = {}
    /\ UNCHANGED <<disk, snapFile, mem, added, remLeft, queue,
                   todo, store, calls, ops, kills, hist, ghost>>

(* ---- the live handlers, as the statements they run ---- *)

Stmt(op, a, b) == [op |-> op, a |-> a, b |-> b]

\* A statement that changes last_snapshot is one step with the opening
\* (truncation) of the snapshot file that follows it: what is only in memory
\* is lost by a kill, so a kill between the two is a kill before both.

\* a buggy variant: the entry is put in memory and the file is never written
put_without_save(path) == <<Stmt("put", path, NoPath)>>

\* _add_to_snapshot(path): last_snapshot[path] = file_hash(...); save_snapshot
add_to_snapshot(path) == <<Stmt("put", path, NoPath), Stmt("write", NoPath, NoPath)>>

\* _remove_from_snapshot(path): del last_snapshot[path]; save_snapshot
remove_from_snapshot(path) == <<Stmt("del", path, NoPath), Stmt("write", NoPath, NoPath)>>

\* Handler.on_created, after its guards
on_created(src) ==
    IF fnmatch_any(AbsPath(src), ignore_patterns) THEN <<>>
    ELSE <<Stmt("on_add", src, NoPath)>> \o add_to_snapshot(src)

\* a buggy variant: on_remove is invoked before the path is taken out of the
\* snapshot
on_deleted_notify_first(src) ==
    IF fnmatch_any(AbsPath(src), ignore_patterns) THEN <<>>
    ELSE <<Stmt("on_remove", src, NoPath)>> \o remove_from_snapshot(src)

\* Handler.on_deleted, after its guards
on_deleted(src) ==
    IF fnmatch_any(AbsPath(src), ignore_patterns) THEN <<>>
    ELSE remove_from_snapshot(src) \o <<Stmt("on_remove", src, NoPath)>>

\* a buggy variant: on_rename is invoked before the source is taken out of
\* the snapshot
on_moved_notify_first(src, dest) ==
    <<Stmt("on_rename", src, dest)>>
    \o remove_from_snapshot(src)
    \o add_to_snapshot(dest)

\* Handler.on_moved, after its guards: the two one-sided branches do not
\* return, so the rename statements follow them
on_moved(src, dest) ==
    LET src_ignored == fnmatch_any(AbsPath(src), ignore_patterns)
        dest_ignored == fnmatch_any(AbsPath(dest), ignore_patterns)
    IN  IF src_ignored /\ dest_ignored THEN <<>>
        ELSE (IF src_ignored
              THEN remove_from_snapshot(src) \o <<Stmt("on_remove", src, NoPath)>>
              ELSE <<>>)
             \o (IF dest_ignored
                 THEN <<Stmt("on_add", dest, NoPath)>> \o add_to_snapshot(dest)
                 ELSE <<>>)
             \o remove_from_snapshot(src)
             \o <<Stmt("on_rename", src, dest)>>
             \o add_to_snapshot(dest)

\* a buggy variant: the new fingerprint is not recorded after the re-index
on_modified_forgets(src) ==
    remove_from_snapshot(src)
    \o <<Stmt("on_remove", src, NoPath), Stmt("on_add", src, NoPath)>>

\* Handler.on_modified, after the two hashes were found to differ
on_modified(src) ==
    remove_from_snapshot(src)
    \o <<Stmt("on_remove", src, NoPath), Stmt("on_add", src, NoPath)>>
    \o add_to_snapshot(src)

\* an exception in a handler ends the delivery thread
ThreadDies ==
    /\ pc' = "dead"
    /\ todo' = <<>>
    /\ ghost' = [ghost EXCEPT !.clean = FALSE]

\* events that touch an ignored path are outside the guarantees for
\* non-ignored files
Handling(e) ==
    ghost' = IF Ignored(e.src) \/ (e.type = "moved" /\ Ignored(e.dest))
             THEN [ghost EXCEPT !.clean = FALSE] ELSE ghost

\* a buggy variant: the next event is dispatched while a handler is running
DeliverWhileBusy(type) ==
    /\ pc = "live"
    /\ queue # <<>>
    /\ Head(queue).type = type
    /\ queue' = Tail(queue)
    /\ calls' = <<>>

\* the delivery thread takes the next event when the handler before it has
\* returned
Deliver(type) ==
    /\ Idle
    /\ queue # <<>>
    /\ Head(queue).type = type
    /\ queue' = Tail(queue)
    /\ calls' = <<>>

OnCreated ==
    /\ Deliver("created")
    /\ todo' = on_created(Head(queue).src)
    /\ Handling(Head(queue))
    /\ UNCHANGED <<disk, snapFile, mem, pc, old, new, added, removed, remLeft,
                   store, ops, kills, hist>>

OnDeleted ==
    /\ Deliver("deleted")
    /\ todo' = on_deleted(Head(queue).src)
    /\ Handling(Head(queue))
    /\ UNCHANGED <<disk, snapFile, mem, pc, old, new, added, removed, remLeft,
                   store, ops, kills, hist>>

OnMoved ==
    /\ Deliver("moved")
    /\ todo' = on_moved(Head(queue).src, Head(queue).dest)
    /\ Handling(Head(queue))
    /\ UNCHANGED <<disk, snapFile, mem, pc, old, new, added, removed, remLeft,
                   store, ops, kills, hist>>

\* on_modified reads last_snapshot[src] (KeyError) and stats the file
\* (FileNotFoundError) before it compares the hashes
OnModified ==
    /\ Deliver("modified")
    /\ LET src == Head(queue).src
       IN  IF fnmatch_any(AbsPath(src), ignore_patterns)
           THEN /\ todo' = <<>>
                /\ Handling(Head(queue))
                /\ UNCHANGED pc
           ELSE IF src \notin DOMAIN mem \/ src \notin DOMAIN disk
           THEN ThreadDies
           ELSE /\ todo' = IF mem[src] = file_hash(disk[src]) THEN <<>>
                           ELSE on_modified(src)
                /\ UNCHANGED <<pc, ghost>>
    /\ UNCHANGED <<disk, snapFile, mem, old, new, added, removed, remLeft,
                   store, ops, kills, hist>>

Next1 == Dispatching /\ todo # <<>>

\* del self.last_snapshot[path] (KeyError when absent); save_snapshot opens
\* the file
StmtDel ==
    /\ Next1 /\ Head(todo).op = "del"
    /\ IF Head(todo).a \in DOMAIN mem
       THEN /\ mem' = Restrict(mem, DOMAIN mem \ {Head(todo).a})
            /\ snapFile' = Torn
            /\ todo' = Tail(todo)
            /\ UNCHANGED <<pc, ghost>>
       ELSE /\ ThreadDies
            /\ UNCHANGED <<mem, snapFile>>
    /\ UNCHANGED <<disk, old, new, added, removed, remLeft, queue,
                   store, calls, ops, kills, hist>>

\* self.last_snapshot[path] = file_hash(self.target_folder / path), which
\* raises FileNotFoundError when the file is gone; save_snapshot opens the file
StmtPut ==
    /\ Next1 /\ Head(todo).op = "put"
    /\ IF Head(todo).a \in DOMAIN disk
       THEN /\ mem' = Put(mem, Head(todo).a, file_hash(disk[Head(todo).a]))
            /\ snapFile' = Torn
            /\ todo' = Tail(todo)
            /\ UNCHANGED <<pc, ghost>>
       ELSE /\ ThreadDies
            /\ UNCHANGED <<mem, snapFile>>
    /\ UNCHANGED <<disk, old, new, added, removed, remLeft, queue,
                   store, calls, ops, kills, hist>>

\* save_snapshot: the content is written
StmtWrite ==
    /\ Next1 /\ Head(todo).op = "write"
    /\ snapFile' = Saved(mem)
    /\ todo' = Tail(todo)
    /\ UNCHANGED <<disk, mem, pc, old, new, added, removed, remLeft, queue,
                   store, calls, ops, kills, hist, ghost>>

\* outer.on_add(path)
CbAdd ==
    /\ Next1 /\ Head(todo).op = "on_add"
    /\ calls' = Append(calls, Call("on_add", Head(todo).a, NoPath))
    /\ OnAdd(Head(todo).a)
    /\ IF on_add_raises(Head(todo).a)
       THEN ThreadDies
       ELSE /\ todo' = Tail(todo)
            /\ UNCHANGED <<pc, ghost>>
    /\ UNCHANGED <<disk, snapFile, mem, old, new, added, removed, remLeft, queue,
                   ops, kills, hist>>

\* outer.on_remove(path)
CbRemove ==
    /\ Next1 /\ Head(todo).op = "on_remove"
    /\ calls' = Append(calls, Call("on_remove", Head(todo).a, NoPath))
    /\ store' = remove_from_vector_db(store, Head(todo).a)
    /\ todo' = Tail(todo)
    /\ UNCHANGED <<disk, snapFile, mem, pc, old, new, added, removed, remLeft,
                   queue, ops, kills, hist, ghost>>

\* outer.on_rename(src, dest)
CbRename ==
    /\ Next1 /\ Head(todo).op = "on_rename"
    /\ calls' = Append(calls, Call("on_rename", Head(todo).a, Head(todo).b))
    /\ store' = rename_in_vector_db(store, Head(todo).a, Head(todo).b)
    /\ todo' = Tail(todo)
    /\ UNCHANGED <<disk, snapFile, mem, pc, old, new, added, removed, remLeft,
                   queue, ops, kills, hist, ghost>>

(* ---- stop() ---- *)

Callbacks == {"on_add", "on_remove", "on_rename"}

\* a buggy variant: stop() on a watcher that is not running forgets the
\* snapshot
StopIdleForgets ==
    /\ Halted
    /\ mem' = Empty
    /\ snapFile' = Saved(Empty)
    /\ ghost' = [ghost EXCEPT !.stop = "idle"]
    /\ UNCHANGED <<disk, pc, old, new, added, removed, remLeft, queue, todo,
                   store, calls, ops, kills, hist>>

\* stop() on a watcher that was never started (self.observer is None), or
\* whose observer has been stopped and joined already: observer.stop() and
\* observer.join() on it do nothing
StopIdle ==
    /\ Halted
    /\ ghost' = [ghost EXCEPT !.stop = "idle"]
    /\ UNCHANGED <<disk, snapFile, mem, pc, old, new, added, removed, remLeft,
                   queue, todo, store, calls, ops, kills, hist>>

\* stop() on a started watcher, observer.stop(): the emitters are stopped and
\* the delivery thread will exit once the handler it is running, if any, has
\* returned; events still queued are not dispatched
StopCall ==
    /\ pc \in {"live", "dead"}
    /\ pc' = "stopping"
    /\ queue' = <<>>
    /\ ghost' = [ghost EXCEPT !.clean = FALSE,
                              !.stop = IF todo # <<>> /\ Head(todo).op \in Callbacks
                                       THEN "inflight" ELSE "drained"]
    /\ UNCHANGED <<disk, snapFile, mem, old, new, added, removed, remLeft, todo,
                   store, calls, ops, kills, hist>>

\* a buggy variant: stop() returns without joining the delivery thread
StopReturnNoJoin ==
    /\ pc = "stopping"
    /\ pc' = "joined"
    /\ UNCHANGED <<disk, snapFile, mem, old, new, added, removed, remLeft, queue,
                   todo, store, calls, ops, kills, hist, ghost>>

\* observer.join() returns when the delivery thread has exited, and stop()
\* returns
StopReturn ==
    /\ pc = "stopping"
    /\ todo = <<>>
    /\ pc' = "joined"
    /\ UNCHANGED <<disk, snapFile, mem, old, new, added, removed, remLeft, queue,
                   todo, store, calls, ops, kills, hist, ghost>>

\* the steps of a process that runs (and of the programs that change the
\* directory)
RunNext ==
    \/ \E p \in Paths : \E c \in CreateContents(p) : FsCreate(p, c)
    \/ \E p \in Paths : \E c \in WriteContents(p) : FsWrite(p, c)
    \/ \E p \in Paths : FsDelete(p)
    \/ \E p, q \in Paths : FsMove(p, q)
    \/ Start
    \/ Save1Open
    \/ Save1Write
    \/ \E p \in Paths : FireAdd(p)
    \/ \E p \in Paths : FireRemove(p)
    \/ Save2Open
    \/ Save2Write
    \/ StartObserver
    \/ OnCreated
    \/ OnDeleted
    \/ OnMoved
    \/ OnModified
    \/ StmtDel
    \/ StmtPut
    \/ StmtWrite
    \/ CbAdd
    \/ CbRemove
    \/ CbRename

MainNext ==
    \/ RunNext
    \/ Kill

(* ---- check() ---- *)

\* agent.py, memorize: docs_indexer.check(), after the new file was written.
\* DocsIndexer defines no check (and its __init__ takes no check_interval):
\* the call raises AttributeError in the caller and no pass is made.
Check ==
    /\ pc = "live"
    /\ ghost' = [ghost EXCEPT !.check = "raised"]
    /\ UNCHANGED <<disk, snapFile, mem, pc, old, new, added, removed, remLeft,
                   queue, todo, store, calls, ops, kills, hist>>

\* the watcher and the indexer in processes that are started, run and are
\* killed
Spec == MainInit /\ [][MainNext]_vars

\* one process that is not killed: its watcher is started, runs, and its
\* owner calls check() and stop()
StopNext ==
    \/ RunNext
    \/ Check
    \/ StopIdle
    \/ StopCall
    \/ StopReturn

SpecStop == MainInit /\ [][StopNext]_vars

-----------------------------------------------------------------------------
(* Properties of the watcher with the indexer, under Spec *)

Quiescent == pc = "live" /\ todo = <<>> /\ queue = <<>>

\* C1: once start() has returned with the index consistent and live events on
\* non-ignored files have been fully processed without a handler failure,
\* the chunk records of every non-ignored path are exactly the chunking of
\* its current content (none when the file is absent or empty), also after a
\* move onto a path that already had chunk records.
C1_QuiescentIndexConsistent ==
    (Quiescent /\ ghost.clean) => Consistent

\* C2: after the first start() of a run returns (nothing changed during the
\* reconciliation itself), the index is consistent with the directory for
\* every change made while the watcher was not running: files created,
\* deleted, or rewritten in place.
C2_OfflineChangesReconciled ==
    (pc = "observe" /\ kills = 0 /\ ghost.quiet) => Consistent

\* what the next start() would compute from the snapshot file and the directory
NextLoads == ~load_raises(snapFile)
NextAdded ==
    IF NextLoads THEN diff_added(load_snapshot(snapFile), scan_folder(disk)) ELSE {}
NextRemoved ==
    IF NextLoads THEN diff_removed(load_snapshot(snapFile), scan_folder(disk)) ELSE {}

\* C3: at every point of start()'s reconciliation where the add callback of an
\* added path p has not returned, the snapshot file does not contain p, and
\* (were the process killed there, with p still in the directory) the next
\* start() delivers on_add(p) again.
C3_PendingAddRedelivered ==
    \A p \in added :
        pc \in {"diffed", "save1", "fire"} =>
            /\ snapFile.st = "ok" => p \notin DOMAIN snapFile.data
            /\ p \in DOMAIN scan_folder(disk) => (NextLoads /\ p \in NextAdded)

\* a callback the running handler has not made yet, which the snapshot file
\* already records as handled so that the next start() would not make it
\* either
Lost(st) ==
    /\ snapFile.st = "ok"
    /\ ~Ignored(st.a)
    /\ st.b # NoPath => ~Ignored(st.b)
    /\ CASE st.op = "on_remove" ->
               st.a \notin DOMAIN snapFile.data /\ st.a \notin DOMAIN scan_folder(disk)
         [] st.op = "on_rename" ->
               st.a \notin DOMAIN snapFile.data /\ st.a \notin DOMAIN scan_folder(disk)
         [] st.op = "on_add" ->
               /\ st.a \in DOMAIN snapFile.data
               /\ st.a \in DOMAIN scan_folder(disk)
               /\ snapFile.data[st.a] = scan_folder(disk)[st.a]
         [] OTHER -> FALSE

\* C4: at every point of the handler of a live event on non-ignored files
\* (the watcher started consistent, the event arrived while it was idle), the
\* snapshot file does not record the event as handled before its callback
\* has run: were the process killed there, the next start() would redeliver
\* every callback not yet made.
C4_LiveCallbackNeverLost ==
    (pc = "live" /\ ghost.clean) => \A i \in 1..Len(todo) : ~Lost(todo[i])

\* C5: whenever a start() runs to completion, every path that was in the
\* persisted snapshot and absent from the directory when some start() began,
\* and has not been created again, has had its records removed by a
\* reconciliation callback (on_remove(p), or the on_add(p) that begins with
\* the same delete) since then.
C5_RemovesAtLeastOnce ==
    pc = "observe" => \A p \in ghost.owed : p \in DOMAIN disk

Count(cb, a) == Cardinality({i \in 1..Len(calls) : calls[i].cb = cb /\ calls[i].a = a})

\* C6: when _initial_diff has returned, with S the loaded snapshot and D the
\* scan, on_add has been fired exactly once for each path of keys(D) minus
\* keys(S), on_remove exactly once for each path of keys(S) minus keys(D), and
\* no other callback has been fired.
C6_ReconciliationCompleteness ==
    pc = "observe" =>
        /\ \A p \in Paths :
              /\ Count("on_add", p) =
                    IF p \in DOMAIN new /\ p \notin DOMAIN old THEN 1 ELSE 0
              /\ Count("on_remove", p) =
                    IF p \in DOMAIN old /\ p \notin DOMAIN new THEN 1 ELSE 0
        /\ \A i \in 1..Len(calls) : calls[i].cb \in {"on_add", "on_remove"}

\* C6's case: the snapshot held a.md, the directory holds a.md and the new
\* b.md, and start() has fired on_add(b.md) and nothing else
C6_Witness ==
    /\ pc = "observe"
    /\ FileA \in DOMAIN old /\ FileA \in DOMAIN new
    /\ FileB \in DOMAIN new /\ FileB \notin DOMAIN old
    /\ calls = <<Call("on_add", FileB, NoPath)>>

\* C9: no callback is ever invoked with an ignored path as an argument.
C9_IgnoredNeverReported ==
    \A i \in 1..Len(calls) :
        /\ ~Ignored(calls[i].a)
        /\ calls[i].b # NoPath => ~Ignored(calls[i].b)

\* C10: start() never fails because of the snapshot file, and when the file
\* is missing or not a valid snapshot the diff starts from an empty baseline
\* and counts every scanned file as added.
C10_SnapshotNeverFatal ==
    /\ pc # "load_failed"
    /\ (pc = "diffed" /\ snapFile.st # "ok") =>
          (old = Empty /\ added = DOMAIN scan_folder(disk))

\* C11: snapshot writes are atomic: after the process was killed, at whatever
\* point of save_snapshot, the snapshot file holds a complete snapshot (the
\* previous one or the new one), never an empty or partial one.
C11_SnapshotWriteAtomic ==
    pc = "stopped" => snapFile.st # "torn"

\* start() or a live handler has returned control to its caller (a handler
\* also by raising, which ends the delivery thread)
Returned == pc = "observe" \/ (pc = "live" /\ todo = <<>>) \/ pc = "dead"

\* C12: whenever start() or a live event handler has returned control to its
\* caller, the snapshot file holds exactly the in-memory snapshot.
C12_SnapshotNeverDirty ==
    Returned => snapFile = Saved(mem)

\* C12's case: the handler of a live move has returned, having taken a.md out
\* of the snapshot and put b.md into it
C12_Witness ==
    /\ pc = "live" /\ todo = <<>>
    /\ calls = <<Call("on_rename", FileA, FileB)>>
    /\ FileB \in DOMAIN mem /\ FileA \notin DOMAIN mem

\* C13: neither the in-memory snapshot nor the snapshot file ever has a key
\* that is an ignored path (the model's paths are all files under the root).
C13_NoIgnoredKey ==
    \A p \in DOMAIN mem \cup DOMAIN snapFile.data : ~Ignored(p)

\* the live side still has something to do about p: an event on p is queued,
\* or the running handler has a statement on p left
Pending(p) ==
    \/ \E i \in 1..Len(queue) : p \in {queue[i].src, queue[i].dest}
    \/ \E i \in 1..Len(todo) : p \in {todo[i].a, todo[i].b}

\* the in-memory snapshot says of p what the directory says
Tracked(p) ==
    IF p \in DOMAIN disk
    THEN p \in DOMAIN mem /\ mem[p] = file_hash(disk[p])
    ELSE p \notin DOMAIN mem

\* C16: no change is missed between the load of the snapshot and the start of
\* the subscription: once the watcher is live, every non-ignored path is in
\* the snapshot as it is in the directory (its creation, deletion or rewrite
\* was in the reconciliation scan), or a live event on it is still to be
\* handled.
C16_NoChangeMissedInGap ==
    pc = "live" => \A p \in Paths : ~Ignored(p) => (Tracked(p) \/ Pending(p))

\* C17: snapshot and collection mutations are serialized. No event is queued
\* or handled before start() has finished the reconciliation; a handler is
\* started only when none is running, on the event at the head of the queue;
\* and while the watcher is live the snapshot, its file and the collection
\* are changed only by the next statement of the one running handler.
C17_Serialized ==
    /\ [](Reconciling => (todo = <<>> /\ queue = <<>>))
    /\ [][ (pc = "live" /\ pc' = "live") =>
              /\ Len(queue') < Len(queue) =>
                    (todo = <<>> /\ queue' = Tail(queue) /\ UNCHANGED <<mem, snapFile, store>>)
              /\ (todo # <<>> /\ todo' # todo) => (todo' = Tail(todo) /\ queue' = queue)
              /\ mem' # mem =>
                    (todo # <<>> /\ Head(todo).op \in {"del", "put"} /\ todo' = Tail(todo))
              /\ snapFile' # snapFile =>
                    (todo # <<>> /\ Head(todo).op \in {"del", "put", "write"} /\ todo' = Tail(todo))
              /\ store' # store =>
                    (todo # <<>> /\ Head(todo).op \in Callbacks /\ todo' = Tail(todo)) ]_vars

\* C17's case: a second event has arrived while the handler of the first is
\* between its callback and its snapshot update
C17_Witness ==
    /\ pc = "live"
    /\ queue # <<>>
    /\ calls # <<>>
    /\ todo # <<>> /\ Head(todo).op = "put"

\* C21: a failure raised by on_add, on_remove or on_rename during live
\* delivery is caught at the watcher's boundary: the step that runs a callback
\* never ends the delivery thread, which goes on with the handler and with
\* the events queued behind it.
C21_CallbackFailureCaught ==
    [][ (pc = "live" /\ todo # <<>> /\ Head(todo).op \in Callbacks) =>
            pc' # "dead" ]_vars

\* C22: during the reconciliation of start(), every on_remove of the diff is
\* fired before any on_add of the same diff.
C22_RemovesBeforeAdds ==
    Reconciling =>
        \A i, j \in 1..Len(calls) :
            (calls[i].cb = "on_add" /\ calls[j].cb = "on_remove") => j < i

\* C23: in start(), while the reconciliation callbacks are fired (so before
\* the first of them) the snapshot file holds exactly the loaded entries whose
\* paths the scan still found, with their old fingerprints and without any
\* added path; when the last callback has returned and _initial_diff is over,
\* the file holds the full scan and the in-memory snapshot is that scan.
C23_ReconciliationSaves ==
    /\ pc = "fire" =>
          /\ snapFile = Saved(Restrict(old, DOMAIN old \cap DOMAIN new))
          /\ \A p \in DOMAIN new \ DOMAIN old : p \notin DOMAIN snapFile.data
    /\ pc = "observe" => (snapFile = Saved(new) /\ mem = new)

\* C23's case: start() found one path gone and another new, has fired both
\* callbacks and made its final save
C23_Witness ==
    /\ pc = "observe"
    /\ DOMAIN old \ DOMAIN new # {}
    /\ DOMAIN new \ DOMAIN old # {}
    /\ Len(calls) = 2

\* the callbacks among the statements of a handler, in order, and its
\* changes of the snapshot
CallbackStmts(stmts) == SelectSeq(stmts, LAMBDA s : s.op \in Callbacks)
SnapshotStmts(stmts) == SelectSeq(stmts, LAMBDA s : s.op \in {"del", "put"})

\* C24: the handler of a live move(src, dst) with an ignored side runs nothing
\* when both sides are ignored; exactly on_add(dst) and the recording of dst
\* when only src is ignored; exactly on_remove(src) and the removal of src
\* when only dst is ignored; and never on_rename or any other callback.
C24_OneSidedMove ==
    [][ (pc = "live" /\ todo = <<>> /\ queue # <<>> /\ queue' = Tail(queue)
         /\ Head(queue).type = "moved"
         /\ (Ignored(Head(queue).src) \/ Ignored(Head(queue).dest))) =>
            LET src == Head(queue).src
                dst == Head(queue).dest
            IN  /\ (Ignored(src) /\ Ignored(dst)) => todo' = <<>>
                /\ (Ignored(src) /\ ~Ignored(dst)) =>
                      /\ CallbackStmts(todo') = <<Stmt("on_add", dst, NoPath)>>
                      /\ SnapshotStmts(todo') = <<Stmt("put", dst, NoPath)>>
                /\ (~Ignored(src) /\ Ignored(dst)) =>
                      /\ CallbackStmts(todo') = <<Stmt("on_remove", src, NoPath)>>
                      /\ SnapshotStmts(todo') = <<Stmt("del", src, NoPath)>> ]_vars

\* what a move with no ignored side is to run
MoveStmts(src, dst) ==
    <<Stmt("del", src, NoPath), Stmt("write", NoPath, NoPath),
      Stmt("on_rename", src, dst),
      Stmt("put", dst, NoPath), Stmt("write", NoPath, NoPath)>>
Suffix(seq, k) == SubSeq(seq, k, Len(seq))

\* C25: the handler of a live move(src, dst) with no ignored side and src in
\* the snapshot takes src out of the snapshot and saves it, then invokes
\* on_rename(src, dst), once and as its only callback, then records dst with
\* the fingerprint the file has and saves; when it has returned the snapshot
\* has dst and not src. (A dst that is gone when the handler comes to
\* fingerprint it has no live fingerprint: the handler raises, see C21.)
C25_PlainMove ==
    \A src, dst \in Paths :
        (~Ignored(src) /\ ~Ignored(dst) /\ src # dst) =>
            \* up to the invocation of on_rename
            /\ (pc = "live" /\ \E i \in 1..Len(todo) :
                                  todo[i] = Stmt("on_rename", src, dst)) =>
                  /\ calls = <<>>
                  /\ \E k \in 1..3 : todo = Suffix(MoveStmts(src, dst), k)
                  /\ Head(todo).op # "del" => src \notin DOMAIN mem
                  /\ Head(todo).op = "on_rename" => snapFile = Saved(mem)
            \* after it
            /\ (pc = "live" /\ calls = <<Call("on_rename", src, dst)>>) =>
                  /\ src \notin DOMAIN mem
                  /\ \/ todo = Suffix(MoveStmts(src, dst), 4)
                     \/ /\ todo = Suffix(MoveStmts(src, dst), 5)
                        /\ dst \in DOMAIN disk /\ dst \in DOMAIN mem
                        /\ mem[dst] = file_hash(disk[dst])
                     \/ /\ todo = <<>>
                        /\ dst \in DOMAIN mem
                        /\ snapFile = Saved(mem)

\* C25's case: a.md was moved to b.md, on_rename(a.md, b.md) has been invoked
\* and b.md has been recorded; the save is next
C25_Witness ==
    /\ pc = "live"
    /\ calls = <<Call("on_rename", FileA, FileB)>>
    /\ todo = <<Stmt("write", NoPath, NoPath)>>
    /\ FileB \in DOMAIN mem /\ FileA \notin DOMAIN mem

\* the delivery thread (of a process that is not killed in this step) takes a
\* modify event on a tracked file that exists and is not ignored
TakesModify(p) ==
    /\ pc = "live" /\ todo = <<>> /\ queue # <<>> /\ queue' = Tail(queue)
    /\ kills' = kills
    /\ Head(queue) = Event("modified", p, NoPath)
    /\ ~Ignored(p) /\ p \in DOMAIN mem /\ p \in DOMAIN disk

\* C26: on a live modify event for a tracked, non-ignored file p the handler
\* does nothing when the file's fingerprint is the stored one (no callback,
\* snapshot and file unchanged); otherwise it invokes on_remove(p) and next
\* on_add(p), no other callback, and then records the fingerprint the file
\* has: when it has returned the snapshot stores the live fingerprint, so a
\* second notification of the same change finds the fingerprints equal.
C26_ModifyReplaces ==
    /\ [][ \A p \in Paths : TakesModify(p) =>
              IF mem[p] = file_hash(disk[p])
              THEN /\ todo' = <<>> /\ calls' = <<>> /\ pc' = "live"
                   /\ UNCHANGED <<mem, snapFile, store>>
              ELSE /\ CallbackStmts(todo') =
                         <<Stmt("on_remove", p, NoPath), Stmt("on_add", p, NoPath)>>
                   /\ \E i \in 1..(Len(todo') - 1) :
                         /\ todo'[i] = Stmt("on_remove", p, NoPath)
                         /\ todo'[i + 1] = Stmt("on_add", p, NoPath)
                         /\ \E j \in (i + 2)..Len(todo') :
                               todo'[j] = Stmt("put", p, NoPath)
                   /\ UNCHANGED <<mem, snapFile, store>> ]_vars
    /\ [](\A p \in Paths :
            (pc = "live" /\ ~Ignored(p)
             /\ calls = <<Call("on_remove", p, NoPath), Call("on_add", p, NoPath)>>) =>
                /\ todo \in {<<Stmt("put", p, NoPath), Stmt("write", NoPath, NoPath)>>,
                             <<Stmt("write", NoPath, NoPath)>>, <<>>}
                /\ Len(todo) = 1 => (p \in DOMAIN disk /\ p \in DOMAIN mem
                                     /\ mem[p] = file_hash(disk[p]))
                /\ todo = <<>> => (p \in DOMAIN mem /\ snapFile = Saved(mem)))

\* C26's case: a.md was rewritten, the handler has invoked on_remove(a.md)
\* and on_add(a.md) and returned, and the snapshot stores the fingerprint of
\* the file as it is
C26_Witness ==
    /\ pc = "live" /\ todo = <<>>
    /\ calls = <<Call("on_remove", FileA, NoPath), Call("on_add", FileA, NoPath)>>
    /\ FileA \in DOMAIN disk /\ FileA \in DOMAIN mem
    /\ mem[FileA] = file_hash(disk[FileA])
    /\ snapFile = Saved(mem)

\* C29: the records of a source carry the chunk positions of one file: after
\* on_add(p) they are the n chunks of the file with chunk_id 0..n-1, each
\* once, and for every source the chunk_id values stay a duplicate-free range
\* 0..n-1 whatever adds, removes and renames follow.
C29_ChunkIdsStayARange ==
    \A p \in Paths :
        LET mine == {r \in store : r.source_id = p}
        IN  /\ \A r, s \in mine : r.chunk_id = s.chunk_id => r = s
            /\ {r.chunk_id : r \in mine} = 0..(Cardinality(mine) - 1)

\* C31: when a non-ignored file is created and deleted again before on_add
\* reads it, on_add's not-found condition does not end the delivery thread:
\* the step that runs on_add on the vanished file (in a process that is not
\* killed in that step) leaves the thread live with the events queued behind
\* it, the delete notification among them, still to be processed.
C31_VanishedFileSkipped ==
    [][ (pc = "live" /\ todo # <<>> /\ Head(todo).op = "on_add"
         /\ Head(todo).a \notin DOMAIN disk /\ ~Ignored(Head(todo).a)
         /\ kills' = kills) =>
            (pc' = "live" /\ queue' = queue) ]_vars

\* C32: at every quiescent point, also in a process started after an earlier
\* one was killed in a live handler or in the reconciliation, every source_id
\* that has records in the collection is a key of the snapshot.
C32_NoOrphanRecords ==
    Quiescent => \A r \in store : r.source_id \in DOMAIN mem

\* C33: after start() and any sequence of live events that were all fully
\* processed, no handler having failed, the snapshot is the directory: its
\* keys are the non-ignored files under the root and each stored fingerprint
\* is the fingerprint the file has.
C33_SnapshotIsDirectory ==
    Quiescent => mem = scan_folder(disk)

\* C34: the fingerprint the snapshot holds for p is the fingerprint of the
\* content p's records were computed from, also when another program rewrote
\* p while the add or modify handler was between on_add's read and
\* _add_to_snapshot's stat: a modify event that is suppressed as unchanged
\* (stored fingerprint = live fingerprint) finds p's records to be the chunks
\* of the file's content.
C34_RewriteNotSuppressed ==
    [][ \A p \in Paths :
            (TakesModify(p) /\ mem[p] = file_hash(disk[p])) => ConsistentAt(p) ]_vars

\* the only changes of the directory were two live moves, a.md -> b.md and
\* b.md -> a.md, of the tracked a.md, indexed under that name, and the
\* delivery thread has nothing left to do about them: it has handled both
\* events, or it has ended in the handler of the first
RoundTripDone ==
    /\ kills = 0 /\ ops = 2
    /\ disk = [p \in {FileA} |-> FirstFile]
    /\ \A r \in store : r.id[1] = FileA
    /\ todo = <<>>
    /\ \/ pc = "live" /\ queue = <<>> /\ calls = <<Call("on_rename", FileB, FileA)>>
       \/ pc = "dead" /\ calls = <<Call("on_rename", FileA, FileB)>>

\* C37: a rename round trip a -> b, b -> a of a tracked file (no path
\* ignored, b not tracked before, no other event) restores the collection
\* (the records a.md had before the first move: same ids, documents,
\* embeddings, source_id and chunk_id) and the key set of the snapshot.
C37_RenameRoundTrip ==
    RoundTripDone =>
        /\ \E rnd \in Draws(Text(FirstFile.content)) :
              store = add_to_vector_db({}, FileA, Text(FirstFile.content), rnd)
        /\ DOMAIN mem = {FileA}

\* the delivery thread (of a process that is not killed in this step) takes a
\* delete or modify event on a non-ignored path the snapshot does not have
TakesUntracked(p) ==
    /\ pc = "live" /\ todo = <<>> /\ queue # <<>> /\ queue' = Tail(queue)
    /\ kills' = kills
    /\ Head(queue).type \in {"deleted", "modified"} /\ Head(queue).src = p
    /\ ~Ignored(p) /\ p \notin DOMAIN mem

\* C38: a live delete or modify event for a non-ignored path that is not in
\* the in-memory snapshot raises in the handler before any callback: the
\* modify handler at its read of the stored fingerprint, the delete handler
\* at the del that is its first statement; the in-memory snapshot, the
\* snapshot file and the collection are left as they were.
C38_UntrackedEventRaises ==
    /\ [][ \A p \in Paths : TakesUntracked(p) =>
              /\ calls' = <<>>
              /\ UNCHANGED <<mem, snapFile, store>>
              /\ IF Head(queue).type = "modified"
                 THEN pc' = "dead" /\ todo' = <<>>
                 ELSE todo' # <<>> /\ Head(todo') = Stmt("del", p, NoPath) ]_vars
    /\ [][ \A p \in Paths :
              (/\ pc = "live" /\ kills' = kills /\ p \notin DOMAIN mem
               /\ todo = <<Stmt("del", p, NoPath), Stmt("write", NoPath, NoPath),
                           Stmt("on_remove", p, NoPath)>>) =>
                  /\ pc' = "dead" /\ todo' = <<>>
                  /\ calls = <<>>
                  /\ UNCHANGED <<mem, snapFile, store, calls>> ]_vars

\* C38's case: b.md, which the snapshot does not have, is in the directory,
\* and the handler of an event on it has raised before any callback
C38_Witness ==
    /\ pc = "dead"
    /\ calls = <<>>
    /\ FileB \in DOMAIN disk /\ FileB \notin DOMAIN mem
    /\ FileA \in DOMAIN mem
    /\ snapFile = Saved(mem)
    /\ \A r \in store : r.source_id # FileB

-----------------------------------------------------------------------------
(* Properties of start() and stop(), under SpecStop *)

\* the lifecycle state of the watcher
Life ==
    CASE pc \in {"stopped", "joined", "load_failed"} -> "Stopped"
      [] Reconciling -> "Reconciling"
      [] OTHER -> "Live"

LifecycleOrder ==
    {<<"Stopped", "Reconciling">>, <<"Reconciling", "Live">>, <<"Live", "Stopped">>}

\* a step that is a stop() on a watcher that is not running
IdleStopStep == Life = "Stopped" /\ ghost'.stop = "idle" /\ ghost.stop # "idle"

C15_CooperativeStop ==
    /\ [](pc = "joined" =>
            /\ todo = <<>> /\ queue = <<>>
            /\ snapFile = Saved(mem)
            /\ ghost.stop = "inflight" => calls # <<>>)
    /\ [][ (pc = "stopping" /\ kills' = kills) =>
              \/ pc' = "stopping" /\ todo' \in {todo, Tail(todo)}
              \/ pc' = "joined" /\ todo = <<>>
              \/ pc' = "dead" ]_vars
    /\ [][ (pc = "joined" /\ pc' = "joined") =>
              UNCHANGED <<calls, mem, snapFile, store, todo, queue>> ]_vars

\* C15's case: stop() was called while the handler of a created b.md was about
\* to call on_add, and it has returned with the callback made and b.md in the
\* snapshot, in memory and in the file
C15_Witness ==
    /\ pc = "joined"
    /\ ghost.stop = "inflight"
    /\ calls = <<Call("on_add", FileB, NoPath)>>
    /\ FileB \in DOMAIN mem
    /\ snapFile = Saved(mem)

\* C20: check() can be called while the watcher is live and makes the
\* diff-and-reconcile pass of start() without a restart: the call does not
\* fail, and once a pass was made and the live events are handled, every
\* file of the snapshot has its chunks in the index (an on_add that failed
\* before has been delivered again).
C20_CheckReconciles ==
    /\ ghost.check # "raised"
    /\ (ghost.check = "reconciled" /\ Quiescent) =>
          \A p \in DOMAIN mem : (~Ignored(p) /\ p \in DOMAIN disk) => ConsistentAt(p)

-----------------------------------------------------------------------------
(* stop() and then start() again on the same watcher, in a process that is  *)
(* not killed; `hist` holds the directory as it was when stop() returned    *)
(* and, after the second start(), what that start() found                   *)

\* stop() returns (observer.join() has returned), as StopReturn
StopJoin ==
    /\ pc = "stopping"
    /\ todo = <<>>
    /\ pc' = "joined"
    /\ hist' = [op |-> "stop", disk |-> disk]
    /\ UNCHANGED <<disk, snapFile, mem, old, new, added, removed, remLeft, queue,
                   todo, store, calls, ops, kills, ghost>>

\* start() on the stopped watcher: load_snapshot and _initial_diff up to the
\* computed diff, as Start
Restart ==
    /\ pc = "joined"
    /\ calls' = <<>>
    /\ hist' = [op |-> "restart", disk |-> hist.disk, at |-> disk,
                file |-> snapFile, pre |-> store, kills |-> kills]
    /\ IF load_raises(snapFile)
       THEN /\ pc' = "load_failed"
            /\ UNCHANGED <<mem, old, new, added, removed, remLeft, ghost>>
       ELSE LET o == load_snapshot(snapFile)
                n == scan_folder(disk)
            IN  /\ pc' = "diffed"
                /\ mem' = o /\ old' = o /\ new' = n
                /\ added' = diff_added(o, n)
                /\ removed' = diff_removed(o, n)
                /\ remLeft' = diff_removed(o, n)
                /\ ghost' = [ghost EXCEPT !.quiet = TRUE, !.stop = "none",
                                          !.owed = @ \cup diff_removed(o, n)]
    /\ UNCHANGED <<disk, snapFile, queue, todo, store, ops, kills>>

RestartNext ==
    \/ RunNext
    \/ StopCall
    \/ StopJoin
    \/ Restart

SpecRestart == MainInit /\ [][RestartNext]_vars

\* the second start() has run its reconciliation to the end (and has not
\* ended the process with an exception, another process starting after it)
Replayed == pc = "observe" /\ hist.op = "restart" /\ hist.kills = kills

\* the replay did nothing
NothingDone == calls = <<>> /\ snapFile = hist.file /\ store = hist.pre

-----------------------------------------------------------------------------
(* A driver of the indexer alone: it calls _on_add, _on_remove and          *)
(* _on_rename directly on files it writes, and records in `hist` the call,  *)
(* the collection before it (pre), and, when the call repeats the previous  *)
(* _on_add of the same unchanged file, the collection before that one       *)
(* (base).                                                                  *)

IdxPaths == {FileA, FileB}

IdxInit ==
    /\ disk \in {[p \in {FileA} |-> [content |-> c, mtime |-> 0]] : c \in AllContents}
    /\ snapFile = [st |-> "missing", data |-> Empty]
    /\ mem = Empty
    /\ pc = "stopped"
    /\ old = Empty
    /\ new = Empty
    /\ added = {}
    /\ removed = {}
    /\ remLeft = {}
    /\ queue = <<>>
    /\ todo = <<>>
    /\ store = {}
    /\ calls = <<>>
    /\ ops = 0
    /\ kills = 0
    /\ hist = NoCall
    /\ ghost = [quiet |-> TRUE, clean |-> FALSE, owed |-> {}, stop |-> "none",
               check |-> "none"]

\* the driver rewrites (or creates) file p with content c
IdxWrite(p, c) ==
    /\ ops < MaxIdxOps
    /\ disk' = [x \in DOMAIN disk \cup {p} |->
                  IF x = p THEN [content |-> c, mtime |-> ops + 1] ELSE disk[x]]
    /\ hist' = NoCall
    /\ ops' = ops + 1
    /\ UNCHANGED <<store, watcherVars>>

\* DocsIndexer._on_add(p) on a file that exists
IdxOnAdd(p) ==
    /\ ops < MaxIdxOps
    /\ p \in DOMAIN disk
    /\ LET content == Text(disk[p].content)
           again == hist.op = "add" /\ hist.p = p
       IN  \E rnd \in Draws(content) :
             /\ store' = add_to_vector_db(store, p, content, rnd)
             /\ hist' = [op |-> "add", p |-> p, q |-> <<>>, pre |-> store,
                         base |-> IF again THEN hist.pre ELSE {},
                         rnd |-> rnd, twice |-> again,
                         embeds |-> IF content = <<>> THEN 0 ELSE 1]
    /\ ops' = ops + 1
    /\ UNCHANGED <<disk, watcherVars>>

\* DocsIndexer._on_add(p) on a file that does not exist: _read raises
\* FileNotFoundError after the delete has been done
IdxOnAddMissing(p) ==
    /\ ops < MaxIdxOps
    /\ p \notin DOMAIN disk
    /\ store' = remove_from_vector_db(store, p)
    /\ hist' = [NoCall EXCEPT !.op = "add_failed", !.p = p, !.pre = store]
    /\ ops' = ops + 1
    /\ UNCHANGED <<disk, watcherVars>>

\* DocsIndexer._on_remove(p)
IdxOnRemove(p) ==
    /\ ops < MaxIdxOps
    /\ store' = remove_from_vector_db(store, p)
    /\ hist' = [NoCall EXCEPT !.op = "remove", !.p = p, !.pre = store]
    /\ ops' = ops + 1
    /\ UNCHANGED <<disk, watcherVars>>

\* DocsIndexer._on_rename(old, new)
IdxOnRename(old_id, new_id) ==
    /\ ops < MaxIdxOps
    /\ store' = rename_in_vector_db(store, old_id, new_id)
    /\ hist' = [NoCall EXCEPT !.op = "rename", !.p = old_id, !.q = new_id,
                              !.pre = store]
    /\ ops' = ops + 1
    /\ UNCHANGED <<disk, watcherVars>>

IdxNext ==
    \/ \E p \in IdxPaths, c \in AllContents : IdxWrite(p, c)
    \/ \E p \in IdxPaths : IdxOnAdd(p)
    \/ \E p \in IdxPaths : IdxOnAddMissing(p)
    \/ \E p \in IdxPaths : IdxOnRemove(p)
    \/ \E p, q \in IdxPaths : p # q /\ IdxOnRename(p, q)

SpecIdx == IdxInit /\ [][IdxNext]_vars

\* C7: idempotent upsert. When _on_add(p) has just been called twice in a row
\* on an unchanged file, the collection is exactly what one _on_add(p) (making
\* the same random draws as the second call) produces from the collection
\* before the first call, and p's records are one per chunk of the file, with
\* the chunk_id values 0..n-1 and no duplicate.
C7_IdempotentUpsert ==
    (hist.op = "add" /\ hist.twice) =>
        LET content == Text(disk[hist.p].content)
            mine == {r \in store : r.source_id = hist.p}
            once == add_to_vector_db(hist.base, hist.p, content, hist.rnd)
        IN  /\ store = once
            /\ \A r, s \in mine : r.chunk_id = s.chunk_id => r = s
            /\ \A r \in mine : r.document = split_text(content, ChunkSize, Overlap)[r.chunk_id + 1]

\* C7's case: a second _on_add of a two-chunk file, made with other random
\* draws than the first, on a collection that already held records
C7_Witness ==
    /\ hist.op = "add" /\ hist.twice
    /\ hist.base # {}
    /\ Cardinality({r \in store : r.source_id = hist.p}) = 2
    /\ store # hist.pre

\* C8: _on_rename(old, new) changes only the source_id of the records that had
\* source_id = old: the collection holds the same ids, every record keeps its
\* chunk_id, document and embedding, no embedding call is made, and when no
\* record has source_id = old the collection is unchanged.
C8_RenameFrame ==
    hist.op = "rename" =>
        /\ {r.id : r \in store} = {r.id : r \in hist.pre}
        /\ Cardinality(store) = Cardinality(hist.pre)
        /\ \A r \in hist.pre :
             \E s \in store :
                /\ s.id = r.id
                /\ s.chunk_id = r.chunk_id
                /\ s.document = r.document
                /\ s.embedding = r.embedding
                /\ s.source_id = IF r.source_id = hist.p THEN hist.q ELSE r.source_id
        /\ hist.embeds = 0
        /\ ({r \in hist.pre : r.source_id = hist.p} = {}) => store = hist.pre

\* C8's case: a rename that moved the two records of a two-chunk file
C8_Witness ==
    /\ hist.op = "rename"
    /\ Cardinality({r \in hist.pre : r.source_id = hist.p}) = 2
    /\ \E r \in store : r.source_id = hist.q /\ r.chunk_id = 1

\* C19: record ids are unique and never reused: no two records of the
\* collection share an id, and the ids _on_add generates are the ids of no
\* record that was in the collection when it was called (the records of the
\* path itself, which it deletes, and those of every other path, also the
\* ones a rename moved away from this path).
C19_ChunkIdsUnique ==
    /\ \A r, s \in store : r.id = s.id => r = s
    /\ hist.op = "add" =>
          \A r \in NewRecords(hist.p, Text(disk[hist.p].content), hist.rnd) :
              r.id \notin {x.id : x \in hist.pre}

\* C28: _on_add(p) for a file whose content is empty removes the records
\* that had source_id p, makes no embedding call and inserts nothing: the
\* collection is the one before the call without p's records, and p has no
\* record.
C28_EmptyFileNoRecords ==
    (hist.op = "add" /\ Text(disk[hist.p].content) = <<>>) =>
        /\ store = {r \in hist.pre : r.source_id # hist.p}
        /\ {r \in store : r.source_id = hist.p} = {}
        /\ hist.embeds = 0

\* C28's case: _on_add of a file that had records and has been emptied
C28_Witness ==
    /\ hist.op = "add"
    /\ Text(disk[hist.p].content) = <<>>
    /\ \E r \in hist.pre : r.source_id = hist.p
    /\ store # hist.pre

\* The same driver on a collection that an earlier run has left with the
\* record of another file, c.md
FileC == <<"c.md">>
IdxWarmInit ==
    /\ disk \in {[p \in {FileA} |-> [content |-> c, mtime |-> 0]] : c \in AllContents}
    /\ snapFile = [st |-> "missing", data |-> Empty]
    /\ mem = Empty
    /\ pc = "stopped"
    /\ old = Empty
    /\ new = Empty
    /\ added = {}
    /\ removed = {}
    /\ remLeft = {}
    /\ queue = <<>>
    /\ todo = <<>>
    /\ \E rnd \in Draws(Text(2)) : store = add_to_vector_db({}, FileC, Text(2), rnd)
    /\ calls = <<>>
    /\ ops = 0
    /\ kills = 0
    /\ hist = NoCall
    /\ ghost = [quiet |-> TRUE, clean |-> FALSE, owed |-> {}, stop |-> "none",
               check |-> "none"]

SpecIdxWarm == IdxWarmInit /\ [][IdxNext]_vars

\* the records of S whose source_id is none of ids
Others(S, ids) == {r \in S : r.source_id \notin ids}

\* C30: the collection is partitioned by source_id. _on_remove(p) deletes the
\* records with source_id p and nothing else; _on_add(p) (also one that fails
\* on a missing file) leaves every record of another source as it was; and
\* _on_rename(p, q) leaves every record whose source_id is neither p nor q as
\* it was: same id, document, embedding and metadata.
C30_SourcePartition ==
    /\ hist.op = "remove" => store = Others(hist.pre, {hist.p})
    /\ hist.op \in {"add", "add_failed"} =>
          Others(store, {hist.p}) = Others(hist.pre, {hist.p})
    /\ hist.op = "rename" =>
          Others(store, {hist.p, hist.q}) = Others(hist.pre, {hist.p, hist.q})

\* C30's case: _on_rename(p, q) has moved the records of p to q in a
\* collection that also holds the record of c.md, which is still there
C30_Witness ==
    /\ hist.op = "rename"
    /\ \E r \in hist.pre : r.source_id = hist.p
    /\ store # hist.pre
    /\ Others(store, {hist.p, hist.q}) # {}

-----------------------------------------------------------------------------
(* split_text alone: a caller that calls it on the texts below *)

\* a text of n characters, all different
Letters == <<"a", "b", "c", "d", "e", "f", "g", "h", "i", "j", "k", "l">>
Numbered(n) == SubSeq(Letters, 1, n)

SplitInputs ==
    {<<Numbered(n), size, ov>> : n \in 0..MaxLen, size \in 1..MaxSize, ov \in 0..(MaxSize - 1)}
    \cup {<<Text(c), ChunkSize, Overlap>> : c \in AllContents}

SplitInit ==
    /\ IdxInit
    /\ disk = [p \in {FileA} |-> FirstFile]

\* chunks = split_text(text, size, overlap), for overlap < size
SplitCall(text, size, ov) ==
    /\ ov < size
    /\ hist' = [op |-> "split", text |-> text, size |-> size, overlap |-> ov,
                chunks |-> split_text(text, size, ov)]
    /\ UNCHANGED <<disk, store, ops, watcherVars>>

SplitNext == \E in \in SplitInputs : SplitCall(in[1], in[2], in[3])

SpecSplit == SplitInit /\ [][SplitNext]_vars

\* window k of a text: the characters k*step + 1 .. k*step + size, as far as
\* the text goes
Window(text, k, size, step) ==
    LET w == Min(size, Len(text) - k * step)
    IN  [j \in 1..w |-> text[k * step + j]]

\* C18: for overlap < size, split_text returns, in order, exactly the windows
\* text[k*step : k*step + size], step = size - overlap, of every k >= 0 with
\* k*step < len(text): nothing for the empty text, the text itself when it is
\* no longer than step, two chunks sharing Overlap characters for the long
\* text with the default sizes; and every character is in some chunk.
C18_SplitWindows ==
    hist.op = "split" =>
        LET text == hist.text
            chunks == hist.chunks
            step == hist.size - hist.overlap
            n == (Len(text) + step - 1) \div step
        IN  /\ Len(chunks) = n
            /\ \A k \in 0..(n - 1) : chunks[k + 1] = Window(text, k, hist.size, step)
            /\ text = <<>> => chunks = <<>>
            /\ (0 < Len(text) /\ Len(text) <= step) => chunks = <<text>>
            /\ \A i \in 1..Len(text) :
                  \E k \in 0..(n - 1) : k * step < i /\ i <= k * step + Len(chunks[k + 1])
            /\ (Len(text) = LongLen /\ hist.size = ChunkSize /\ hist.overlap = Overlap) =>
                  /\ Len(chunks) = 2
                  /\ SubSeq(chunks[1], ChunkSize - Overlap + 1, ChunkSize)
                       = SubSeq(chunks[2], 1, Overlap)

\* C18's case: the long text split with the default sizes, in two chunks
C18_Witness ==
    /\ hist.op = "split"
    /\ Len(hist.text) = LongLen /\ hist.size = ChunkSize /\ hist.overlap = Overlap
    /\ Len(hist.chunks) = 2
    /\ Len(hist.chunks[1]) = ChunkSize

-----------------------------------------------------------------------------
(* split_text as the loop it is: one step per evaluation of the while       *)
(* condition, for any overlap, also overlap >= chunk_size                   *)

\* the loop is followed for at most this many chunks: more than any text of
\* the model gives when the window advances
MaxChunks == MaxLen + 2

\* text[start:end] of Python for any integers: a negative index counts from
\* the end, and both are clamped to the text
PyIndex(text, i) ==
    IF i < 0 THEN (IF i + Len(text) < 0 THEN 0 ELSE i + Len(text))
    ELSE Min(i, Len(text))
PySlice(text, start, end) == SubSeq(text, PyIndex(text, start) + 1, PyIndex(text, end))

LoopInputs ==
    {<<Numbered(n), size, ov>> : n \in 0..MaxLen, size \in 1..MaxSize, ov \in 0..MaxSize}

\* split_text has been called: chunks = [], start = 0
LoopInit ==
    /\ disk = [p \in {FileA} |-> FirstFile]
    /\ snapFile = [st |-> "missing", data |-> Empty]
    /\ mem = Empty
    /\ pc = "stopped"
    /\ old = Empty
    /\ new = Empty
    /\ added = {}
    /\ removed = {}
    /\ remLeft = {}
    /\ queue = <<>>
    /\ todo = <<>>
    /\ store = {}
    /\ calls = <<>>
    /\ ops = 0
    /\ kills = 0
    /\ \E in \in LoopInputs :
          hist = [op |-> "loop", text |-> in[1], size |-> in[2], overlap |-> in[3],
                  start |-> 0, chunks |-> <<>>, at |-> "while"]
    /\ ghost = [quiet |-> TRUE, clean |-> FALSE, owed |-> {}, stop |-> "none",
               check |-> "none"]

\* a buggy variant: the window always advances by chunk_size
LoopBodyFullStep ==
    /\ hist.at = "while"
    /\ hist.start < Len(hist.text)
    /\ Len(hist.chunks) < MaxChunks
    /\ hist' = [hist EXCEPT
                  !.chunks = Append(@, PySlice(hist.text, hist.start,
                                               hist.start + hist.size)),
                  !.start = @ + hist.size]
    /\ UNCHANGED <<disk, store, ops, watcherVars>>

\* while start < len(text): the body
LoopBody ==
    /\ hist.at = "while"
    /\ hist.start < Len(hist.text)
    /\ Len(hist.chunks) < MaxChunks
    /\ hist' = [hist EXCEPT
                  !.chunks = Append(@, PySlice(hist.text, hist.start,
                                               hist.start + hist.size)),
                  !.start = @ + hist.size - hist.overlap]
    /\ UNCHANGED <<disk, store, ops, watcherVars>>

\* while start < len(text) is false: return chunks
LoopReturn ==
    /\ hist.at = "while"
    /\ ~(hist.start < Len(hist.text))
    /\ hist' = [hist EXCEPT !.at = "returned"]
    /\ UNCHANGED <<disk, store, ops, watcherVars>>

LoopNext == LoopBody \/ LoopReturn

\* the interpreter goes on executing the function it is in
SpecLoop == LoopInit /\ [][LoopNext]_vars /\ WF_vars(LoopNext)

\* C27: split_text terminates for every text when overlap < chunk_size: the
\* window start grows with every pass, the passes are at most
\* ceil(len(text) / (chunk_size - overlap)), and the call returns (with what
\* split_text is defined to return). When overlap >= chunk_size it never
\* returns for a non-empty text: the window start never reaches len(text),
\* and the list of chunks grows without end.
C27_SplitTermination ==
    /\ [](LET step == hist.size - hist.overlap
              len == Len(hist.text)
          IN  IF hist.overlap < hist.size
              THEN /\ hist.start = Len(hist.chunks) * step
                   /\ Len(hist.chunks) <= (len + step - 1) \div step
                   /\ Len(hist.chunks) < MaxChunks
                   /\ hist.at = "returned" =>
                         hist.chunks = split_text(hist.text, hist.size, hist.overlap)
              ELSE hist.text # <<>> =>
                      (hist.at = "while" /\ hist.start <= 0 /\ hist.start < len))
    /\ (hist.overlap < hist.size) ~> (hist.at = "returned")

\* C27's case: a text of several windows has been split and the call returned
C27_Witness ==
    /\ hist.at = "returned"
    /\ hist.overlap > 0
    /\ Len(hist.chunks) >= 3

\* the other case of C27: overlap >= chunk_size on a non-empty text, followed
\* as far as the model goes and still in the loop
C27_StillLooping ==
    /\ hist.at = "while"
    /\ hist.overlap > hist.size
    /\ hist.start < 0
    /\ Len(hist.chunks) = MaxChunks

-----------------------------------------------------------------------------
(* A search on one thread while another thread re-indexes a file: the       *)
(* re-index runs as the collection calls it makes, one step each, and       *)
(* `hist` holds the running re-index, `calls` the result of the last search *)

\* the re-index of p by on_add alone, or by on_modified's on_remove and
\* on_add: the calls on the collection it is to make
reindex(p, modify) ==
    (IF modify THEN <<Stmt("on_remove", p, NoPath)>> ELSE <<>>)
    \o <<Stmt("delete", p, NoPath), Stmt("add", p, NoPath)>>

\* rewrites and re-indexes followed
MaxSrchOps == 2

\* the other program rewrites (or creates) p
SrchWrite(p, c) ==
    /\ ops < MaxSrchOps
    /\ disk' = [x \in DOMAIN disk \cup {p} |->
                  IF x = p THEN [content |-> c, mtime |-> ops + 1] ELSE disk[x]]
    /\ ops' = ops + 1
    /\ UNCHANGED <<snapFile, mem, pc, old, new, added, removed, remLeft, queue,
                   todo, store, calls, kills, hist, ghost>>

\* the indexing thread enters the re-index of p
ReindexBegin(p, modify) ==
    /\ ops < MaxSrchOps
    /\ todo = <<>>
    /\ todo' = reindex(p, modify)
    /\ hist' = [op |-> "reindex", p |-> p, pre |-> store, made |-> {}]
    /\ calls' = <<>>
    /\ ops' = ops + 1
    /\ UNCHANGED <<disk, snapFile, mem, pc, old, new, added, removed, remLeft,
                   queue, store, kills, ghost>>

\* a buggy variant: the delete that begins _add_to_vector_db is left out
ReindexDeleteSkipped ==
    /\ todo # <<>> /\ Head(todo).op \in {"on_remove", "delete"}
    /\ todo' = Tail(todo)
    /\ UNCHANGED <<disk, snapFile, mem, pc, old, new, added, removed, remLeft,
                   queue, store, calls, ops, kills, hist, ghost>>

\* _remove_from_vector_db(p): of on_remove, and at the head of
\* _add_to_vector_db
ReindexDelete ==
    /\ todo # <<>> /\ Head(todo).op \in {"on_remove", "delete"}
    /\ store' = remove_from_vector_db(store, Head(todo).a)
    /\ todo' = Tail(todo)
    /\ UNCHANGED <<disk, snapFile, mem, pc, old, new, added, removed, remLeft,
                   queue, calls, ops, kills, hist, ghost>>

\* the rest of _add_to_vector_db: _read (which raises when the file is gone),
\* the return on empty content, the embedding call and collection.add
ReindexAdd ==
    /\ todo # <<>> /\ Head(todo).op = "add"
    /\ todo' = Tail(todo)
    /\ LET p == Head(todo).a
       IN  IF p \notin DOMAIN disk \/ Text(disk[p].content) = <<>>
           THEN UNCHANGED <<store, hist>>
           ELSE \E rnd \in Draws(Text(disk[p].content)) :
                  /\ store' = collection_add(store,
                                  NewRecords(p, Text(disk[p].content), rnd))
                  /\ hist' = [hist EXCEPT !.made = store' \ store]
    /\ UNCHANGED <<disk, snapFile, mem, pc, old, new, added, removed, remLeft,
                   queue, calls, ops, kills, ghost>>

\* search_from_vector_db(query, n_results, source_id) on another thread:
\* collection.query returns records of the collection as it is at that
\* moment, those of source_id when one is given (source = NoPath: none given)
Search(source) ==
    /\ hist.op = "reindex"
    /\ calls' = <<Call("search", source,
                       {r \in store : source = NoPath \/ r.source_id = source})>>
    /\ UNCHANGED <<disk, snapFile, mem, pc, old, new, added, removed, remLeft,
                   queue, todo, store, ops, kills, hist, ghost>>

SearchNext ==
    \/ \E p \in IdxPaths, c \in AllContents : SrchWrite(p, c)
    \/ \E p \in IdxPaths, modify \in BOOLEAN : ReindexBegin(p, modify)
    \/ ReindexDelete
    \/ ReindexAdd
    \/ \E source \in IdxPaths \cup {NoPath} : Search(source)

SpecSearch == IdxWarmInit /\ [][SearchNext]_vars

\* C35: a search that runs while p is re-indexed, or after, returns of p the
\* records p had before the re-index, or none, or the records the re-index
\* made, never some of both; and a search changes neither the collection nor
\* the snapshot.
C35_SearchSeesOldNoneOrNew ==
    /\ [](calls # <<>> =>
            LET seen == {r \in calls[1].b : r.source_id = hist.p}
                before == {r \in hist.pre : r.source_id = hist.p}
            IN  /\ seen \in {before, {}, hist.made}
                /\ ~ \E r \in seen \ hist.made : \E n \in seen \ before : TRUE)
    /\ [][ (calls' # calls /\ calls' # <<>>) =>
              UNCHANGED <<store, mem, snapFile, todo, hist>> ]_vars

\* C35's case: a search between the delete and the add of a re-index of a
\* file that had records has found none for it
C35_Witness ==
    /\ calls # <<>>
    /\ todo # <<>> /\ Head(todo).op = "add"
    /\ \E r \in hist.pre : r.source_id = hist.p
    /\ {r \in calls[1].b : r.source_id = hist.p} = {}
    /\ calls[1].b # {}

-----------------------------------------------------------------------------
(* async_generator (agent.py): a producer thread feeds a queue.Queue with
   asyncio.Event objects and items, the consumer coroutine takes them.

   Variables as used here: todo is what the wrapped iterable has not yet
   produced and old the whole of it; queue is q; mem[k] is the flag of the
   k-th asyncio.Event; ghost holds the locals of enqueue(), hist those of
   the consumer; calls is what the consumer has yielded.

   asyncio.Event is not thread-safe. wait() tests the flag, then makes a
   future and appends it to the waiters; set() raises the flag and resolves
   the futures it finds. A set() from the producer thread between the test
   and the append finds no future, and the one appended afterwards is never
   resolved. A set() that does find the future resolves it with
   loop.call_soon from a thread that is not the loop's, which does not
   wake a loop that is blocked in its selector: the wake-up arrives or
   not. *)

MaxItems == 2

Items == {1, 2}

Iterables == UNION {[1..n -> Items] : n \in 0..MaxItems}

QEvent(k) == [kind |-> "event", v |-> k]
QItem(i) == [kind |-> "item", v |-> i]
StopIteration == [kind |-> "stop", v |-> 0]

\* the state when thr.start() has returned
BridgeInit ==
    /\ disk = [p \in {FileA} |-> FirstFile]
    /\ snapFile = [st |-> "missing", data |-> Empty]
    /\ mem = <<>>
    /\ pc = [enqueue |-> "start", consumer |-> "get_event"]
    /\ \E it \in Iterables : old = it /\ todo = it
    /\ new = Empty
    /\ added = {}
    /\ removed = {}
    /\ remLeft = {}
    /\ queue = <<>>
    /\ store = {}
    /\ calls = <<>>
    /\ ops = 0
    /\ kills = 0
    /\ hist = [op |-> "bridge", next_item_event |-> 0, waiter |-> "none"]
    /\ ghost = [next_item_event |-> 0, i |-> 0]

bridgeIdle == <<disk, snapFile, new, added, removed, remLeft, store, ops, kills, old>>

\* asyncio.Event.set() called by the producer thread on event e: the new
\* locals of the consumer
EventSet(e) ==
    IF pc.consumer = "sleep" /\ hist.next_item_event = e /\ hist.waiter = "registered"
    THEN {[hist EXCEPT !.waiter = w] : w \in {"woken", "lost"}}
    ELSE {hist}

\* next_item_event = asyncio.Event(); q.put(next_item_event)
EnqueueStart ==
    /\ pc.enqueue = "start"
    /\ mem' = Append(mem, FALSE)
    /\ ghost' = [ghost EXCEPT !.next_item_event = Len(mem')]
    /\ queue' = Append(queue, QEvent(Len(mem')))
    /\ pc' = [pc EXCEPT !.enqueue = "for"]
    /\ UNCHANGED <<bridgeIdle, todo, calls, hist>>

\* for i in generator: the iterable produces its next item, or is exhausted
EnqueueFor ==
    /\ pc.enqueue = "for"
    /\ IF todo # <<>>
       THEN /\ ghost' = [ghost EXCEPT !.i = Head(todo)]
            /\ todo' = Tail(todo)
            /\ pc' = [pc EXCEPT !.enqueue = "set"]
       ELSE /\ pc' = [pc EXCEPT !.enqueue = "set_last"]
            /\ UNCHANGED <<ghost, todo>>
    /\ UNCHANGED <<bridgeIdle, mem, queue, calls, hist>>

\* next_item_event.set(); next_item_event = asyncio.Event()
EnqueueSet ==
    /\ pc.enqueue = "set"
    /\ mem' = Append([mem EXCEPT ![ghost.next_item_event] = TRUE], FALSE)
    /\ hist' \in EventSet(ghost.next_item_event)
    /\ ghost' = [ghost EXCEPT !.next_item_event = Len(mem')]
    /\ pc' = [pc EXCEPT !.enqueue = "put_item"]
    /\ UNCHANGED <<bridgeIdle, todo, queue, calls>>

\* q.put(i)
EnqueuePutItem ==
    /\ pc.enqueue = "put_item"
    /\ queue' = Append(queue, QItem(ghost.i))
    /\ pc' = [pc EXCEPT !.enqueue = "put_event"]
    /\ UNCHANGED <<bridgeIdle, mem, todo, calls, hist, ghost>>

\* q.put(next_item_event)
EnqueuePutEvent ==
    /\ pc.enqueue = "put_event"
    /\ queue' = Append(queue, QEvent(ghost.next_item_event))
    /\ pc' = [pc EXCEPT !.enqueue = "for"]
    /\ UNCHANGED <<bridgeIdle, mem, todo, calls, hist, ghost>>

\* after the loop: next_item_event.set()
EnqueueSetLast ==
    /\ pc.enqueue = "set_last"
    /\ mem' = [mem EXCEPT ![ghost.next_item_event] = TRUE]
    /\ hist' \in EventSet(ghost.next_item_event)
    /\ pc' = [pc EXCEPT !.enqueue = "put_stop"]
    /\ UNCHANGED <<bridgeIdle, todo, queue, calls, ghost>>

\* q.put(StopIteration); the thread ends
EnqueuePutStop ==
    /\ pc.enqueue = "put_stop"
    /\ queue' = Append(queue, StopIteration)
    /\ pc' = [pc EXCEPT !.enqueue = "done"]
    /\ UNCHANGED <<bridgeIdle, mem, todo, calls, hist, ghost>>

\* next_item_event = q.get(): blocks while q is empty; an entry that is not
\* an Event has no wait()
ConsumerGetEvent ==
    /\ pc.consumer = "get_event"
    /\ queue # <<>>
    /\ queue' = Tail(queue)
    /\ hist' = [hist EXCEPT !.next_item_event = Head(queue).v, !.waiter = "none"]
    /\ pc' = [pc EXCEPT !.consumer =
                 IF Head(queue).kind = "event" THEN "wait" ELSE "failed"]
    /\ UNCHANGED <<bridgeIdle, mem, todo, calls, ghost>>

\* Event.wait(): the test of the flag
ConsumerWaitTest ==
    /\ pc.consumer = "wait"
    /\ pc' = [pc EXCEPT !.consumer =
                 IF mem[hist.next_item_event] THEN "get_item" ELSE "register"]
    /\ UNCHANGED <<bridgeIdle, mem, todo, queue, calls, hist, ghost>>

\* Event.wait(): the future is appended to the waiters and awaited
ConsumerWaitRegister ==
    /\ pc.consumer = "register"
    /\ hist' = [hist EXCEPT !.waiter = "registered"]
    /\ pc' = [pc EXCEPT !.consumer = "sleep"]
    /\ UNCHANGED <<bridgeIdle, mem, todo, queue, calls, ghost>>

\* the loop runs the callback of the resolved future: wait() returns
ConsumerWake ==
    /\ pc.consumer = "sleep"
    /\ hist.waiter = "woken"
    /\ hist' = [hist EXCEPT !.waiter = "none"]
    /\ pc' = [pc EXCEPT !.consumer = "get_item"]
    /\ UNCHANGED <<bridgeIdle, mem, todo, queue, calls, ghost>>

\* item = q.get(); if item is StopIteration: break; yield item
ConsumerGetItem ==
    /\ pc.consumer = "get_item"
    /\ queue # <<>>
    /\ queue' = Tail(queue)
    /\ IF Head(queue) = StopIteration
       THEN /\ pc' = [pc EXCEPT !.consumer = "done"]
            /\ UNCHANGED calls
       ELSE /\ pc' = [pc EXCEPT !.consumer = "get_event"]
            /\ calls' = Append(calls, Head(queue))
    /\ UNCHANGED <<bridgeIdle, mem, todo, hist, ghost>>

BridgeNext ==
    \/ EnqueueStart
    \/ EnqueueFor
    \/ EnqueueSet
    \/ EnqueuePutItem
    \/ EnqueuePutEvent
    \/ EnqueueSetLast
    \/ EnqueuePutStop
    \/ ConsumerGetEvent
    \/ ConsumerWaitTest
    \/ ConsumerWaitRegister
    \/ ConsumerWake
    \/ ConsumerGetItem

SpecBridge == BridgeInit /\ [][BridgeNext]_vars

\* the queue holds, from its head, what the consumer takes next: events and
\* items in turn, StopIteration in the place of an item
Alternates ==
    \A k \in 1..Len(queue) :
        (queue[k].kind = "event") <=> ((k % 2 = 1) <=> (pc.consumer = "get_event"))

\* what was yielded is the start of the iterable, item by item
YieldedInOrder ==
    /\ Len(calls) <= Len(old)
    /\ \A k \in 1..Len(calls) : calls[k] = QItem(old[k])
    /\ pc.consumer = "done" => (Len(calls) = Len(old) /\ pc.enqueue = "done")

\* the consumer is parked in wait() on an event whose set() is over, and no
\* wake-up is on its way: nothing will resume it
WaitsForever ==
    /\ pc.consumer = "sleep"
    /\ mem[hist.next_item_event]
    /\ hist.waiter # "woken"

\* C39: in every interleaving of the producer thread and the consumer the
\* queue alternates event and item, the consumer takes an event where it
\* expects one and an item where it expects one, it yields the items of the
\* iterable once each in order and is done only after the iterable is
\* exhausted, and it is never left waiting on an event for good.
C39_BridgeDelivers ==
    /\ Alternates
    /\ pc.consumer # "failed"
    /\ YieldedInOrder
    /\ ~WaitsForever

====
